---- MODULE Spec2Model ----
(***************************************************************************)
(* Budget API: the relational store (Budget, BudgetCategoryGroup,          *)
(* BudgetCategory, Transaction, Payee) and the request handlers that       *)
(* change it.  Tables are sets of rows; every row carries its primary key  *)
(* `id`, handed out by a per-table auto-increment counter.  Money amounts  *)
(* are integers in hundredths (DecimalField, decimal_places = 2).          *)
(***************************************************************************)
EXTENDS Integers, FiniteSets, Sequences, TLC

VARIABLES budgets, groups, cats, txns, payees, nextId, last, pc, loc

vars == <<budgets, groups, cats, txns, payees, nextId, last, pc, loc>>
store == <<budgets, groups, cats, txns, payees, nextId>>

(* ------------------------------ bounds --------------------------------- *)
MaxBudgetId == 2
MaxGroupId == 4
MaxCatId == 4
MaxTxnId == 2
MaxCopyTxnId == 1
SmallMaxGroupId == 2
SmallMaxCatId == 2
MaxPayeeId == 1

Users == {"alice", "root"}
is_staff(u) == u = "root"
Periods == {<<"DEC", 2023>>, <<"JAN", 2024>>}
GroupNames == {"Living", "Fun"}
CategoryNames == {"Rent", "Food"}
LimitInputs == {50000}
AmountInputs == {1000, 550}
PayeeNames == {"Shop"}
Procs == {"p1", "p2"}

(* the pk standing for "no row": Python None where a Budget is expected *)
NoPk == 0

(* the value standing for a raised KeyError where a pk is expected *)
KeyError == -1

(* --------------------------- models.py --------------------------------- *)
MONTH_CHOICES ==
    <<"JAN", "FEB", "MAR", "APR", "MAY", "JUN",
      "JUL", "AUG", "SEP", "OCT", "NOV", "DEC">>

(* index of a month's short name in MONTH_CHOICES, 0-based *)
MONTH_LOOKUP(m) == (CHOOSE i \in 1..12 : MONTH_CHOICES[i] = m) - 1

get_previous_month_noWrap(month_idx, year) ==
    IF month_idx - 1 < 0 THEN <<11, year>> ELSE <<month_idx - 1, year>>

get_previous_month(month_idx, year) ==
    IF month_idx - 1 < 0 THEN <<11, year - 1>> ELSE <<month_idx - 1, year>>

(* rows of a table with a given primary key *)
ByPk(table, pk) == {r \in table : r.id = pk}
Row(table, pk) == CHOOSE r \in table : r.id = pk

(* Budget.previous: pk of the same owner's budget of the preceding month,  *)
(* NoPk when Budget.DoesNotExist; MONTH_LOOKUP[self.month] raises KeyError *)
(* for a month that is no key of the dictionary                            *)
previous(bs, b) ==
    LET p == get_previous_month(MONTH_LOOKUP(b.month), b.year)
        found == {x \in bs : /\ x.owner = b.owner
                             /\ x.year = p[2]
                             /\ x.month = MONTH_CHOICES[p[1] + 1]}
    IN IF \A i \in 1..12 : MONTH_CHOICES[i] # b.month THEN KeyError
       ELSE IF found = {} THEN NoPk ELSE (CHOOSE x \in found : TRUE).id

(* derived owners *)
GroupOwner(g) == Row(budgets, g.budget).owner
CatOwner(c) == GroupOwner(Row(groups, c.group))
TxnOwner(t) == CatOwner(Row(cats, t.budget_category))

(* Sum('amount') over a set of transaction rows: NULL on the empty set *)
RECURSIVE SumAmount(_)
SumAmount(ts) ==
    IF ts = {} THEN 0
    ELSE LET t == CHOOSE x \in ts : TRUE IN t.amount + SumAmount(ts \ {t})

(* an optional value: <<>> is None / NULL / a field the request left out *)
Opt(S) == {<<>>} \cup {<<x>> : x \in S}

Sum(ts) == IF ts = {} THEN <<>> ELSE <<SumAmount(ts)>>
Coalesce(v, d) == IF v = <<>> THEN d ELSE v[1]

spent_unfiltered(tx, pk) == Coalesce(Sum(tx), 0)

(* BudgetCategory.spent *)
spent(tx, pk) == Coalesce(Sum({t \in tx : t.budget_category = pk}), 0)

(* ------------------------- the store as a value ------------------------ *)
DB == [budgets |-> budgets, groups |-> groups, cats |-> cats, txns |-> txns,
       payees |-> payees, nextId |-> nextId]

EmptyDB ==
    [budgets |-> {}, groups |-> {}, cats |-> {}, txns |-> {}, payees |-> {},
     nextId |-> [budget |-> 1, group |-> 1, cat |-> 1, txn |-> 1, payee |-> 1]]

(* the auto-increment counters stay within the bounds of the model *)
Fits(db) ==
    /\ db.nextId.budget <= MaxBudgetId + 1
    /\ db.nextId.group <= MaxGroupId + 1
    /\ db.nextId.cat <= MaxCatId + 1
    /\ db.nextId.txn <= MaxTxnId + 1
    /\ db.nextId.payee <= MaxPayeeId + 1

MinRow(S) == CHOOSE r \in S : \A q \in S : r.id <= q.id

InsertBudget(db, owner, month, year) ==
    [db EXCEPT !.budgets = @ \cup {[id |-> db.nextId.budget, owner |-> owner,
                                    month |-> month, year |-> year]},
               !.nextId.budget = @ + 1]

InsertGroup(db, budget, name) ==
    [db EXCEPT !.groups = @ \cup {[id |-> db.nextId.group, name |-> name,
                                   budget |-> budget]},
               !.nextId.group = @ + 1]

InsertCategory(db, category, group, limit) ==
    [db EXCEPT !.cats = @ \cup {[id |-> db.nextId.cat, category |-> category,
                                 group |-> group, limit |-> limit]},
               !.nextId.cat = @ + 1]

InsertPayee(db, name, owner) ==
    [db EXCEPT !.payees = @ \cup {[id |-> db.nextId.payee, name |-> name,
                                   owner |-> owner]},
               !.nextId.payee = @ + 1]

InsertTransaction(db, amount, payee, cat) ==
    [db EXCEPT !.txns = @ \cup {[id |-> db.nextId.txn, amount |-> amount,
                                 payee |-> payee, budget_category |-> cat]},
               !.nextId.txn = @ + 1]

(* get_or_create that inserts without looking the row up first *)
Budget_always_create(db, owner, month, year) ==
    [db |-> InsertBudget(db, owner, month, year), pk |-> db.nextId.budget]

(* Budget.objects.get_or_create(year=, month=, owner=) *)
Budget_get_or_create(db, owner, month, year) ==
    LET found == {b \in db.budgets :
                     b.owner = owner /\ b.month = month /\ b.year = year}
    IN IF found # {} THEN [db |-> db, pk |-> MinRow(found).id]
       ELSE [db |-> InsertBudget(db, owner, month, year),
             pk |-> db.nextId.budget]

(* BudgetCategoryGroup.objects.get_or_create(budget=, name=) *)
Group_get_or_create(db, budget, name) ==
    LET found == {g \in db.groups : g.budget = budget /\ g.name = name}
    IN IF found # {} THEN [db |-> db, pk |-> MinRow(found).id]
       ELSE [db |-> InsertGroup(db, budget, name), pk |-> db.nextId.group]

(* Payee.objects.get_or_create(name=, owner=) *)
Payee_get_or_create(db, name, owner) ==
    LET found == {p \in db.payees : p.name = name /\ p.owner = owner}
    IN IF found # {} THEN [db |-> db, pk |-> MinRow(found).id]
       ELSE [db |-> InsertPayee(db, name, owner), pk |-> db.nextId.payee]

(* get-or-create of a category by (name, group); the limit is written only *)
(* when the row is created                                                 *)
Category_get_or_create(db, category, group, limit) ==
    LET found == {c \in db.cats : c.group = group /\ c.category = category}
    IN IF found # {} THEN [db |-> db, pk |-> MinRow(found).id]
       ELSE [db |-> InsertCategory(db, category, group, limit),
             pk |-> db.nextId.cat]

(* ------------------- Budget.copy_categories / delete_categories -------- *)
RECURSIVE CopyCats(_, _, _)
CopyCats(db, tgtGroup, srcCats) ==
    IF srcCats = {} THEN db
    ELSE LET c == MinRow(srcCats)
         IN CopyCats(Category_get_or_create(db, c.category, tgtGroup, c.limit).db,
                     tgtGroup, srcCats \ {c})

RECURSIVE CopyGroups(_, _, _)
CopyGroups(db, target, srcGroups) ==
    IF srcGroups = {} THEN db
    ELSE LET g == MinRow(srcGroups)
             r == Group_get_or_create(db, target, g.name)
         IN CopyGroups(CopyCats(r.db, r.pk, {c \in r.db.cats : c.group = g.id}),
                       target, srcGroups \ {g})

copy_categories(db, target, source) ==
    CopyGroups(db, target, {g \in db.groups : g.budget = source})

(* deleting the groups cascades to their categories and on to the          *)
(* transactions of those categories (on_delete=CASCADE)                    *)
delete_categories(db, target) ==
    LET gs == {g.id : g \in {x \in db.groups : x.budget = target}}
        cs == {c.id : c \in {x \in db.cats : x.group \in gs}}
    IN [db EXCEPT !.groups = {g \in @ : g.id \notin gs},
                  !.cats = {c \in @ : c.id \notin cs},
                  !.txns = {t \in @ : t.budget_category \notin cs}]

(* ------------------------------ views.py ------------------------------- *)
copy_budget_noDefault(db, target_year, target_month, user, source) ==
    LET r == Budget_get_or_create(db, user, target_month, target_year)
    IN IF source # NoPk THEN copy_categories(r.db, r.pk, source)
       ELSE delete_categories(r.db, r.pk)

copy_budget_replace(db, target_year, target_month, user, source) ==
    LET r == Budget_get_or_create(db, user, target_month, target_year)
        src == IF source = NoPk
               THEN previous(r.db.budgets, Row(r.db.budgets, r.pk))
               ELSE source
    IN IF src # NoPk /\ src # r.pk
       THEN copy_categories(delete_categories(r.db, r.pk), r.pk, src)
       ELSE IF src # NoPk THEN r.db ELSE delete_categories(r.db, r.pk)

copy_budget_keep(db, target_year, target_month, user, source) ==
    LET r == Budget_get_or_create(db, user, target_month, target_year)
        src == IF source = NoPk
               THEN previous(r.db.budgets, Row(r.db.budgets, r.pk))
               ELSE source
    IN IF src # NoPk THEN copy_categories(r.db, r.pk, src) ELSE r.db

(* BudgetViewSet.copy_budget(target_year, target_month, user, source):    *)
(* the store the call leaves; when target.previous raises, that is the     *)
(* store as it stands after the get_or_create of the target                *)
copy_budget(db, target_year, target_month, user, source) ==
    LET r == Budget_get_or_create(db, user, target_month, target_year)
        src == IF source = NoPk
               THEN previous(r.db.budgets, Row(r.db.budgets, r.pk))
               ELSE source
    IN IF src = KeyError THEN r.db
       ELSE IF src # NoPk THEN copy_categories(r.db, r.pk, src)
       ELSE delete_categories(r.db, r.pk)

(* TRUE when the call above ends in the KeyError of target.previous *)
copy_budget_raises(db, target_year, target_month, user, source) ==
    LET r == Budget_get_or_create(db, user, target_month, target_year)
    IN /\ source = NoPk
       /\ previous(r.db.budgets, Row(r.db.budgets, r.pk)) = KeyError

(* --------------------------- serializers.py ---------------------------- *)
(* a request's outcome: the store it leaves and the HTTP status *)
Out(db, status) == [db |-> db, status |-> status]

(* filter(field=value): a value of None matches no row of a non-null column *)
Eq(col, opt) == opt # <<>> /\ col = opt[1]

(* instance value when the request left the field out (`x or instance.x`) *)
Or(opt, dflt) == IF opt = <<>> THEN dflt ELSE opt[1]

validate_source_anyOwner(db, user, source) ==
    source = <<>> \/ ByPk(db.budgets, source[1]) # {}

(* CopyBudgetSerializer: the source field and validate_source; TRUE when   *)
(* the data is valid                                                       *)
validate_source(db, user, source) ==
    \/ source = <<>>
    \/ /\ ByPk(db.budgets, source[1]) # {}
       /\ ~ (Row(db.budgets, source[1]).owner # user)

(* BudgetCategorySerializer.validate_uniqueness; TRUE when a              *)
(* ValidationError is raised.  instance is NoPk on create.                *)
validate_uniqueness(db, user, instance, budget_month, budget_year, category) ==
    LET existing ==
          {c \in db.cats :
              LET b == Row(db.budgets, Row(db.groups, c.group).budget)
              IN /\ Eq(b.month, budget_month)
                 /\ Eq(b.year, budget_year)
                 /\ b.owner = user
                 /\ Eq(c.category, category)}
        others == IF instance # NoPk
                  THEN {c \in existing : c.id # instance}
                  ELSE existing
    IN others # {}

(* BudgetCategorySerializer.get_or_create_related: the group row the       *)
(* category is to be put in                                                *)
get_or_create_related(db, user, instance, data) ==
    LET inst == Row(db.cats, instance)
        ig == Row(db.groups, inst.group)
        ib == Row(db.budgets, ig.budget)
        budget_month == IF instance # NoPk THEN Or(data.budget_month, ib.month)
                        ELSE data.budget_month[1]
        budget_year == IF instance # NoPk THEN Or(data.budget_year, ib.year)
                       ELSE data.budget_year[1]
        group == IF instance # NoPk THEN Or(data.group, ig.name)
                 ELSE data.group[1]
        rb == Budget_get_or_create(db, user, budget_month, budget_year)
    IN Group_get_or_create(rb.db, rb.pk, group)

(* BudgetCategorySerializer: is_valid, then create *)
CategorySerializer_create(db, user, data) ==
    IF validate_uniqueness(db, user, NoPk, data.budget_month,
                           data.budget_year, data.category)
    THEN Out(db, "400")
    ELSE LET r == get_or_create_related(db, user, NoPk, data)
         IN Out(InsertCategory(r.db, data.category[1], r.pk,
                               Or(data.limit, 0)), "201")

(* BudgetCategorySerializer: is_valid, then update of the instance *)
CategorySerializer_update(db, user, instance, data) ==
    IF validate_uniqueness(db, user, instance, data.budget_month,
                           data.budget_year, data.category)
    THEN Out(db, "400")
    ELSE LET r == get_or_create_related(db, user, instance, data)
             old == Row(db.cats, instance)
             new == [old EXCEPT !.group = r.pk,
                                !.category = Or(data.category, @),
                                !.limit = Or(data.limit, @)]
         IN Out([r.db EXCEPT !.cats = (@ \ {old}) \cup {new}], "200")

(* -------------------------- request inputs ----------------------------- *)
(* POST and PUT bodies of budgetcategories/: every required field present, *)
(* limit optional                                                          *)
FullInputs(Ps, Gs, Cs, Ls) ==
    {[budget_month |-> <<p[1]>>, budget_year |-> <<p[2]>>, category |-> <<c>>,
      group |-> <<g>>, limit |-> l] :
        p \in Ps, g \in Gs, c \in Cs, l \in Opt(Ls)}

NoFields ==
    [budget_month |-> <<>>, budget_year |-> <<>>, category |-> <<>>,
     group |-> <<>>, limit |-> <<>>]

(* PATCH bodies of budgetcategories/<pk>/: one field *)
PatchInputs(Ps, Gs, Cs, Ls) ==
    {[NoFields EXCEPT !.budget_month = <<p[1]>>] : p \in Ps}
      \cup {[NoFields EXCEPT !.budget_year = <<p[2]>>] : p \in Ps}
      \cup {[NoFields EXCEPT !.category = <<c>>] : c \in Cs}
      \cup {[NoFields EXCEPT !.group = <<g>>] : g \in Gs}
      \cup {[NoFields EXCEPT !.limit = <<l>>] : l \in Ls}

(* ------------------------- views.py: requests -------------------------- *)
(* IsOwnerOrAdmin.has_object_permission *)
IsOwnerOrAdmin(user, owner) == owner = user \/ is_staff(user)

(* get_queryset of the four view sets: the rows the caller owns *)
BudgetQueryset(db, user) == {b \in db.budgets : b.owner = user}
GroupQueryset(db, user) ==
    {g \in db.groups : Row(db.budgets, g.budget).owner = user}
CategoryQueryset(db, user) ==
    {c \in db.cats :
        Row(db.budgets, Row(db.groups, c.group).budget).owner = user}
TransactionQueryset(db, user) ==
    {t \in db.txns :
        Row(db.budgets,
            Row(db.groups, Row(db.cats, t.budget_category).group).budget).owner
          = user}

(* POST budget/: BudgetSerializer with owner = the caller; the             *)
(* unique_together validator rejects a second (owner, month, year)         *)
Budget_create(db, user, month, year) ==
    IF \E b \in db.budgets : b.owner = user /\ b.month = month /\ b.year = year
    THEN Out(db, "400")
    ELSE Out(InsertBudget(db, user, month, year), "201")

(* POST budgetcategorygroups/: the budget field accepts any Budget row *)
Group_create(db, user, budget, name) ==
    IF ByPk(db.budgets, budget) = {} THEN Out(db, "400")
    ELSE IF \E g \in db.groups : g.budget = budget /\ g.name = name
    THEN Out(db, "400")
    ELSE Out(InsertGroup(db, budget, name), "201")

(* PUT/PATCH budgetcategories/<pk>/ *)
Category_update(db, user, pk, data) ==
    IF ByPk(CategoryQueryset(db, user), pk) = {} THEN Out(db, "404")
    ELSE IF ~ IsOwnerOrAdmin(user, user) THEN Out(db, "403")
    ELSE CategorySerializer_update(db, user, pk, data)

(* POST transactions/: the budget_category field accepts any category row  *)
Transaction_create(db, user, amount, budget_category, payee) ==
    IF ByPk(db.cats, budget_category) = {} THEN Out(db, "400")
    ELSE LET r == Payee_get_or_create(db, payee, user)
         IN Out(InsertTransaction(r.db, amount, r.pk, budget_category), "201")

(* PUT transactions/<pk>/: TransactionSerializer.update gets or creates   *)
(* the payee and saves the instance as it was loaded                       *)
Transaction_update(db, user, pk, amount, budget_category, payee) ==
    IF ByPk(TransactionQueryset(db, user), pk) = {} THEN Out(db, "404")
    ELSE IF ~ IsOwnerOrAdmin(user, user) THEN Out(db, "403")
    ELSE IF ByPk(db.cats, budget_category) = {} THEN Out(db, "400")
    ELSE LET r == Payee_get_or_create(db, payee, user)
             instance == Row(db.txns, pk)
         IN Out([r.db EXCEPT !.txns = (@ \ {instance}) \cup {instance}], "200")

(* DELETE transactions/<pk>/ *)
Transaction_destroy(db, user, pk) ==
    IF ByPk(TransactionQueryset(db, user), pk) = {} THEN Out(db, "404")
    ELSE IF ~ IsOwnerOrAdmin(user, user) THEN Out(db, "403")
    ELSE Out([db EXCEPT !.txns = {t \in @ : t.id # pk}], "204")

(* POST budget/copy_budget/: CopyBudgetSerializer, then copy_budget; an   *)
(* exception that leaves the handler is answered with 500                  *)
copy_budget_action(db, user, source, target_year, target_month) ==
    IF ~ validate_source(db, user, source) THEN Out(db, "400")
    ELSE Out(copy_budget(db, target_year, target_month, user,
                         Or(source, NoPk)),
             IF copy_budget_raises(db, target_year, target_month, user,
                                   Or(source, NoPk))
             THEN "500" ELSE "200")

(* ------------------------------ the machine ---------------------------- *)
(* the last request served: what was asked, the status returned, and for   *)
(* copy_budget whether the same call was also the one before (again),      *)
(* whether the target budget existed before the call and whether it then   *)
(* had groups                                                              *)
Request(op, user, pk, month, year, status) ==
    LET tgt == {b \in budgets :
                   b.owner = user /\ b.month = month /\ b.year = year}
        copy == op = "copy_budget"
    IN [op |-> op, user |-> user, pk |-> pk, month |-> month, year |-> year,
        status |-> status,
        again |-> /\ copy
                  /\ last.op = op /\ last.user = user /\ last.pk = pk
                  /\ last.month = month /\ last.year = year
                  /\ last.status = status,
        existed |-> copy /\ tgt # {},
        hadGroups |-> copy /\ \E g \in groups, b \in tgt : g.budget = b.id]

Commit(out, op, user, pk, month, year) ==
    /\ Fits(out.db)
    /\ budgets' = out.db.budgets
    /\ groups' = out.db.groups
    /\ cats' = out.db.cats
    /\ txns' = out.db.txns
    /\ payees' = out.db.payees
    /\ nextId' = out.db.nextId
    /\ last' = Request(op, user, pk, month, year, out.status)
    /\ UNCHANGED <<pc, loc>>

Init ==
    /\ budgets = {} /\ groups = {} /\ cats = {} /\ txns = {} /\ payees = {}
    /\ nextId = EmptyDB.nextId
    /\ last = [op |-> "none", user |-> "", pk |-> NoPk, month |-> "",
               year |-> 0, status |-> "", again |-> FALSE, existed |-> FALSE,
               hadGroups |-> FALSE]
    /\ pc = [p \in Procs |-> "idle"]
    /\ loc = [p \in Procs |-> <<>>]

BudgetCreate(Us, Ps) ==
    \E u \in Us, p \in Ps :
        Commit(Budget_create(DB, u, p[1], p[2]), "budget_create", u, NoPk,
               p[1], p[2])

GroupCreate(Us, Gs) ==
    \E u \in Us, b \in 1..MaxBudgetId, n \in Gs :
        Commit(Group_create(DB, u, b, n), "group_create", u, b, "", 0)

CategoryCreate(Us, Ds) ==
    \E u \in Us, d \in Ds :
        Commit(CategorySerializer_create(DB, u, d), "category_create", u, NoPk,
               d.budget_month[1], d.budget_year[1])

CategoryUpdate(Us, Ds) ==
    \E u \in Us, pk \in 1..MaxCatId, d \in Ds :
        Commit(Category_update(DB, u, pk, d), "category_update", u, pk, "", 0)

TransactionCreate(Us, As) ==
    \E u \in Us, a \in As, c \in 1..MaxCatId, p \in PayeeNames :
        Commit(Transaction_create(DB, u, a, c, p), "transaction_create", u, c,
               "", 0)

TransactionDestroy(Us) ==
    \E u \in Us, pk \in 1..MaxTxnId :
        Commit(Transaction_destroy(DB, u, pk), "transaction_destroy", u, pk,
               "", 0)

(* the request record keeps the submitted values of a transaction update *)
TransactionUpdate(Us, As) ==
    \E u \in Us, pk \in 1..MaxTxnId, a \in As, c \in 1..MaxCatId,
       p \in PayeeNames :
        LET out == Transaction_update(DB, u, pk, a, c, p)
        IN /\ Fits(out.db)
           /\ budgets' = out.db.budgets
           /\ groups' = out.db.groups
           /\ cats' = out.db.cats
           /\ txns' = out.db.txns
           /\ payees' = out.db.payees
           /\ nextId' = out.db.nextId
           /\ last' = [op |-> "transaction_update", user |-> u, pk |-> pk,
                       month |-> "", year |-> 0, status |-> out.status,
                       again |-> FALSE, existed |-> FALSE,
                       hadGroups |-> FALSE, amount |-> a,
                       budget_category |-> c, payee |-> p]
           /\ UNCHANGED <<pc, loc>>

CopyBudget(Us, Ps) ==
    \E u \in Us, s \in Opt(1..MaxBudgetId), p \in Ps :
        Commit(copy_budget_action(DB, u, s, p[2], p[1]), "copy_budget", u,
               Or(s, NoPk), p[1], p[2])

(* --------------------------- specifications ---------------------------- *)
(* request bodies that give December categories a limit and leave the     *)
(* limit of January categories to its default                             *)
CopyInputs ==
    {d \in FullInputs(Periods, GroupNames, CategoryNames, LimitInputs) :
        (d.limit = <<>>) <=> (d.budget_month = <<"JAN">>)}

(* one user fills budgets with categories and rolls them over *)
NextCopy ==
    \/ CategoryCreate({"alice"}, CopyInputs)
    \/ CopyBudget({"alice"}, Periods)

SpecCopy == Init /\ [][NextCopy]_vars

(* the same with transactions recorded against the categories *)
TxnCopyInputs ==
    {d \in CopyInputs :
        /\ d.budget_month = <<"JAN">> =>
              d.group = <<"Living">> /\ d.category = <<"Rent">>
        /\ d.budget_month = <<"DEC">> =>
              ~ (d.group = <<"Fun">> /\ d.category = <<"Rent">>)}

NextCopyTxn ==
    \/ CategoryCreate({"alice"}, TxnCopyInputs)
    \/ TransactionCreate({"alice"}, {1000}) /\ nextId.txn <= MaxCopyTxnId
    \/ CopyBudget({"alice"}, Periods)

SpecCopyTxn == Init /\ [][NextCopyTxn]_vars

(* the tighter row bound of the specifications below *)
Small ==
    /\ nextId'.group <= SmallMaxGroupId + 1
    /\ nextId'.cat <= SmallMaxCatId + 1

(* two users with budgets of their own: direct creation, categories that   *)
(* get-or-create their budget, moves to another month or year, rollover    *)
OwnerInputs == FullInputs(Periods, {"Living"}, {"Rent"}, {})
OwnerPatches == {d \in PatchInputs(Periods, {}, {}, {}) : d.budget_year = <<>>}

NextOwners ==
    \/ BudgetCreate(Users, Periods) /\ Small
    \/ CategoryCreate(Users, OwnerInputs) /\ Small
    \/ CategoryUpdate(Users, OwnerPatches) /\ Small
    \/ CopyBudget(Users, Periods) /\ Small

SpecOwners == Init /\ [][NextOwners]_vars

(* two users creating groups and transactions by primary key *)
NextAccess ==
    \/ CategoryCreate(Users, OwnerInputs) /\ Small
    \/ GroupCreate(Users, {"Fun"}) /\ Small
    \/ TransactionCreate(Users, {1000}) /\ Small
    \/ TransactionDestroy(Users) /\ Small

SpecAccess == Init /\ [][NextAccess]_vars

(* one user creating, renaming and moving categories *)
CategoryInputs == FullInputs(Periods, GroupNames, CategoryNames, {})
CategoryPatches == PatchInputs(Periods, GroupNames, CategoryNames, LimitInputs)

NextCategory ==
    \/ CategoryCreate({"alice"}, CategoryInputs) /\ Small
    \/ CategoryUpdate({"alice"}, CategoryInputs \cup CategoryPatches) /\ Small

SpecCategory == Init /\ [][NextCategory]_vars

(* one user recording and deleting transactions; rollover deletes them by  *)
(* cascade                                                                 *)
SpentInputs == FullInputs({<<"DEC", 2023>>}, {"Living"}, CategoryNames, {})

NextSpent ==
    \/ CategoryCreate({"alice"}, SpentInputs) /\ Small
    \/ TransactionCreate({"alice"}, AmountInputs) /\ Small
    \/ TransactionDestroy({"alice"}) /\ Small
    \/ CopyBudget({"alice"}, Periods) /\ Small

SpecSpent == Init /\ [][NextSpent]_vars

(* two users creating budgets for any month of a year and the December    *)
(* before it; a rollover into January looks the previous budget up         *)
CalendarPeriods ==
    {<<MONTH_CHOICES[i], 2024>> : i \in 1..12} \cup {<<"DEC", 2023>>}

NextPrevious ==
    \/ BudgetCreate(Users, CalendarPeriods)
    \/ CopyBudget({"alice"}, {<<"JAN", 2024>>})

SpecPrevious == Init /\ [][NextPrevious]_vars

(* one user whose requests may name a month that is no key of             *)
(* MONTH_LOOKUP: budget_month and target_month are plain CharFields        *)
AtomicPeriods == Periods \cup {<<"XYZ", 2024>>}
AtomicInputs ==
    FullInputs({<<"DEC", 2023>>, <<"XYZ", 2024>>}, {"Living"}, CategoryNames, {})
AtomicPatches == PatchInputs({}, {}, CategoryNames, {})

NextAtomic ==
    \/ CategoryCreate({"alice"}, AtomicInputs) /\ Small
    \/ CategoryUpdate({"alice"}, AtomicInputs \cup AtomicPatches) /\ Small
    \/ CopyBudget({"alice"}, AtomicPeriods) /\ Small

SpecAtomic == Init /\ [][NextAtomic]_vars

(* one user recording transactions and editing them *)
NextTxnUpdate ==
    \/ CategoryCreate({"alice"}, SpentInputs) /\ Small
    \/ TransactionCreate({"alice"}, AmountInputs) /\ Small
    \/ TransactionUpdate({"alice"}, AmountInputs) /\ Small

SpecTxnUpdate == Init /\ [][NextTxnUpdate]_vars

(* --------------- copy_budget as interleaved store queries -------------- *)
(* Two calls copy_budget(2024, "JAN", alice, source=None) run at once.     *)
(* Every step is one query of the store; loc[p] holds the call's local     *)
(* variables.  A get_or_create is a SELECT, then an INSERT that the        *)
(* table's unique constraint may refuse, after which the row is read       *)
(* again.                                                                  *)
RaceUser == "alice"
RaceMonth == "JAN"
RaceYear == 2024
RaceInputs == FullInputs({<<"DEC", 2023>>}, {"Living"}, CategoryNames, {})

RECURSIVE SeqOf(_)
SeqOf(S) == IF S = {} THEN <<>> ELSE <<MinRow(S)>> \o SeqOf(S \ {MinRow(S)})

Goto(p, label, fields) ==
    /\ pc' = [pc EXCEPT ![p] = label]
    /\ loc' = [loc EXCEPT ![p] = fields]

(* the store is filled while no call is running *)
RaceSetup ==
    /\ \A p \in Procs : pc[p] = "idle"
    /\ CategoryCreate({RaceUser}, RaceInputs)

RaceBegin(p) ==
    /\ pc[p] = "idle"
    /\ Goto(p, "get_target",
            [target |-> NoPk, sgs |-> <<>>, tg |-> NoPk, scs |-> <<>>])
    /\ UNCHANGED <<store, last>>

(* Budget.objects.get_or_create: the SELECT *)
RaceGetTarget(p) ==
    /\ pc[p] = "get_target"
    /\ LET found == {b \in budgets : /\ b.owner = RaceUser
                                     /\ b.month = RaceMonth
                                     /\ b.year = RaceYear}
       IN IF found # {}
          THEN Goto(p, "previous", [loc[p] EXCEPT !.target = MinRow(found).id])
          ELSE Goto(p, "insert_target", loc[p])
    /\ UNCHANGED <<store, last>>

(* Budget.objects.get_or_create: the INSERT under unique_together          *)
(* (owner, month, year); on IntegrityError the row is read again           *)
RaceInsertTarget(p) ==
    /\ pc[p] = "insert_target"
    /\ LET found == {b \in budgets : /\ b.owner = RaceUser
                                     /\ b.month = RaceMonth
                                     /\ b.year = RaceYear}
       IN IF found # {}
          THEN /\ Goto(p, "previous", [loc[p] EXCEPT !.target = MinRow(found).id])
               /\ UNCHANGED <<store, last>>
          ELSE /\ nextId.budget <= MaxBudgetId
               /\ budgets' = InsertBudget(DB, RaceUser, RaceMonth, RaceYear).budgets
               /\ nextId' = [nextId EXCEPT !.budget = @ + 1]
               /\ Goto(p, "previous", [loc[p] EXCEPT !.target = nextId.budget])
               /\ UNCHANGED <<groups, cats, txns, payees, last>>

(* source = target.previous, then the branch on it; the source's groups    *)
(* are read when the loop over them starts                                 *)
RacePrevious(p) ==
    /\ pc[p] = "previous"
    /\ LET source == previous(budgets, Row(budgets, loc[p].target))
       IN IF source # NoPk
          THEN Goto(p, "get_group",
                    [loc[p] EXCEPT
                       !.sgs = SeqOf({g \in groups : g.budget = source})])
          ELSE Goto(p, "delete_categories", loc[p])
    /\ UNCHANGED <<store, last>>

RaceDeleteCategories(p) ==
    /\ pc[p] = "delete_categories"
    /\ LET db == delete_categories(DB, loc[p].target)
       IN /\ groups' = db.groups
          /\ cats' = db.cats
          /\ txns' = db.txns
    /\ Goto(p, "done", loc[p])
    /\ UNCHANGED <<budgets, payees, nextId, last>>

(* get-or-create of the target group: the SELECT; the source group's       *)
(* categories are read when the group is in hand                           *)
RaceGetGroup(p) ==
    /\ pc[p] = "get_group"
    /\ IF loc[p].sgs = <<>>
       THEN Goto(p, "done", loc[p])
       ELSE LET sg == Head(loc[p].sgs)
                found == {g \in groups :
                             g.budget = loc[p].target /\ g.name = sg.name}
            IN IF found # {}
               THEN Goto(p, "get_category",
                         [loc[p] EXCEPT
                            !.tg = MinRow(found).id,
                            !.scs = SeqOf({c \in cats : c.group = sg.id})])
               ELSE Goto(p, "insert_group", loc[p])
    /\ UNCHANGED <<store, last>>

(* get-or-create of the target group: the INSERT under unique_together     *)
(* (name, budget)                                                          *)
RaceInsertGroup(p) ==
    /\ pc[p] = "insert_group"
    /\ LET sg == Head(loc[p].sgs)
           found == {g \in groups :
                        g.budget = loc[p].target /\ g.name = sg.name}
           scs == SeqOf({c \in cats : c.group = sg.id})
       IN IF found # {}
          THEN /\ Goto(p, "get_category",
                       [loc[p] EXCEPT !.tg = MinRow(found).id, !.scs = scs])
               /\ UNCHANGED <<store, last>>
          ELSE /\ nextId.group <= MaxGroupId
               /\ groups' = InsertGroup(DB, loc[p].target, sg.name).groups
               /\ nextId' = [nextId EXCEPT !.group = @ + 1]
               /\ Goto(p, "get_category",
                       [loc[p] EXCEPT !.tg = nextId.group, !.scs = scs])
               /\ UNCHANGED <<budgets, cats, txns, payees, last>>

(* get-or-create of a target category: the SELECT *)
RaceGetCategory(p) ==
    /\ pc[p] = "get_category"
    /\ IF loc[p].scs = <<>>
       THEN Goto(p, "get_group", [loc[p] EXCEPT !.sgs = Tail(@)])
       ELSE LET sc == Head(loc[p].scs)
                found == {c \in cats :
                             c.group = loc[p].tg /\ c.category = sc.category}
            IN IF found # {}
               THEN Goto(p, "get_category", [loc[p] EXCEPT !.scs = Tail(@)])
               ELSE Goto(p, "insert_category", loc[p])
    /\ UNCHANGED <<store, last>>

(* get-or-create of a target category: the INSERT; BudgetCategory has no   *)
(* unique constraint that could refuse it                                  *)
RaceInsertCategory(p) ==
    /\ pc[p] = "insert_category"
    /\ nextId.cat <= MaxCatId
    /\ LET sc == Head(loc[p].scs)
       IN cats' = InsertCategory(DB, sc.category, loc[p].tg, sc.limit).cats
    /\ nextId' = [nextId EXCEPT !.cat = @ + 1]
    /\ Goto(p, "get_category", [loc[p] EXCEPT !.scs = Tail(@)])
    /\ UNCHANGED <<budgets, groups, txns, payees, last>>

NextRace ==
    \/ RaceSetup
    \/ \E p \in Procs : RaceBegin(p)
    \/ \E p \in Procs : RaceGetTarget(p)
    \/ \E p \in Procs : RaceInsertTarget(p)
    \/ \E p \in Procs : RacePrevious(p)
    \/ \E p \in Procs : RaceDeleteCategories(p)
    \/ \E p \in Procs : RaceGetGroup(p)
    \/ \E p \in Procs : RaceInsertGroup(p)
    \/ \E p \in Procs : RaceGetCategory(p)
    \/ \E p \in Procs : RaceInsertCategory(p)

SpecRace == Init /\ [][NextRace]_vars

(* ------------------------------ properties ---------------------------- *)
(* the calendar month before (month, year), by counting months *)
CalendarBefore(month, year) ==
    LET n == 12 * year + MONTH_LOOKUP(month) - 1
    IN <<MONTH_CHOICES[(n % 12) + 1], n \div 12>>

(* the budget rows a copy_budget request r names as its target *)
TargetIn(bs, r) ==
    {b \in bs : b.owner = r.user /\ b.month = r.month /\ b.year = r.year}

(* the requester's budget rows of the calendar month before r's target *)
PrecedingIn(bs, r) ==
    LET q == CalendarBefore(r.month, r.year)
    IN {b \in bs : b.owner = r.user /\ b.month = q[1] /\ b.year = q[2]}

(* the budget rows r copies from: the explicit source, else the preceding *)
SourceIn(bs, r) ==
    IF r.pk # NoPk THEN {b \in bs : b.id = r.pk} ELSE PrecedingIn(bs, r)

GroupsOf(gs, b) == {g \in gs : g.budget = b.id}
CatsOf(cs, g) == {c \in cs : c.group = g.id}
CatsIn(gs, cs, b) == {c \in cs : \E g \in GroupsOf(gs, b) : c.group = g.id}

CopyDone(r) == r.op = "copy_budget" /\ r.status = "200"

(* C1 as stated: a copy_budget call without a source, made when the owner  *)
(* has a budget for the preceding month, leaves a target budget that has,  *)
(* for every group of that budget, a group of the same name holding, for   *)
(* every category of the source group, a category of the same name and the *)
(* same limit; and the call creates no transaction.                        *)
C1_CopyMirrorsSource ==
    [][(CopyDone(last') /\ last'.pk = NoPk /\ PrecedingIn(budgets, last') # {})
         => /\ TargetIn(budgets', last') # {}
            /\ \A sb \in PrecedingIn(budgets, last') :
               \A sg \in GroupsOf(groups, sb) :
                 \E tb \in TargetIn(budgets', last') :
                   \E tg \in GroupsOf(groups', tb) :
                     /\ tg.name = sg.name
                     /\ \A sc \in CatsOf(cats, sg) :
                          \E tc \in CatsOf(cats', tg) :
                            /\ tc.category = sc.category
                            /\ tc.limit = sc.limit
            /\ txns' \subseteq txns]_vars

(* C1 amended: as C1, but a category the target group already had under    *)
(* that name before the call stands for the source category and keeps its  *)
(* own limit; only categories the call creates take the source's limit.    *)
C1_CopyMirrorsSourceNames ==
    [][(CopyDone(last') /\ last'.pk = NoPk /\ PrecedingIn(budgets, last') # {})
         => /\ TargetIn(budgets', last') # {}
            /\ \A sb \in PrecedingIn(budgets, last') :
               \A sg \in GroupsOf(groups, sb) :
                 \E tb \in TargetIn(budgets', last') :
                   \E tg \in GroupsOf(groups', tb) :
                     /\ tg.name = sg.name
                     /\ \A sc \in CatsOf(cats, sg) :
                          \E tc \in CatsOf(cats', tg) :
                            /\ tc.category = sc.category
                            /\ tc.limit = sc.limit \/ tc \in cats
            /\ txns' \subseteq txns]_vars

C1_Witness ==
    /\ CopyDone(last) /\ last.pk = NoPk /\ ~ last.existed
    /\ txns # {}
    /\ \E sb \in PrecedingIn(budgets, last), tb \in TargetIn(budgets, last) :
          /\ Cardinality(GroupsOf(groups, sb)) = 2
          /\ Cardinality(CatsIn(groups, cats, sb)) = 2
          /\ Cardinality(CatsIn(groups, cats, tb)) = 2

(* C2: a copy_budget call that repeats the call before it, argument for    *)
(* argument, changes no budget, group or category row: the target keeps    *)
(* the contents the first call gave it and no second target row appears.   *)
C2_CopyIdempotent ==
    [][(CopyDone(last') /\ last'.again)
         => budgets' = budgets /\ groups' = groups /\ cats' = cats]_vars

C2_Witness ==
    /\ CopyDone(last) /\ last.again
    /\ \E sb \in SourceIn(budgets, last), tb \in TargetIn(budgets, last) :
          sb # tb /\ CatsIn(groups, cats, sb) # {} /\ CatsIn(groups, cats, tb) # {}

(* C4: a category the target budget had before a copy_budget call, whose   *)
(* name and group name are those of a source category, is still there      *)
(* after the call with the limit it had.                                   *)
C4_NoOverwrite ==
    [][CopyDone(last')
         => \A tb \in TargetIn(budgets, last') :
              \A tg \in GroupsOf(groups, tb) :
                \A tc \in CatsOf(cats, tg) :
                  (\E sb \in SourceIn(budgets, last') :
                     \E sg \in GroupsOf(groups, sb) :
                       \E sc \in CatsOf(cats, sg) :
                         sg.name = tg.name /\ sc.category = tc.category)
                    => tc \in cats']_vars

C4_Witness ==
    /\ CopyDone(last) /\ last.existed
    /\ \E sb \in SourceIn(budgets, last), tb \in TargetIn(budgets, last) :
          /\ sb # tb
          /\ \E sg \in GroupsOf(groups, sb), tg \in GroupsOf(groups, tb) :
                /\ sg.name = tg.name
                /\ \E sc \in CatsOf(cats, sg), tc \in CatsOf(cats, tg) :
                      sc.category = tc.category /\ sc.limit # tc.limit

(* C5: after a copy_budget call without a source, made when the owner has  *)
(* no budget for the preceding month, the target budget exists and has no  *)
(* group and no category, whatever it held before.                         *)
C5_NoSourceEmptiesTarget ==
    (CopyDone(last) /\ last.pk = NoPk /\ PrecedingIn(budgets, last) = {})
      => /\ TargetIn(budgets, last) # {}
         /\ \A tb \in TargetIn(budgets, last) :
              GroupsOf(groups, tb) = {} /\ CatsIn(groups, cats, tb) = {}

C5_Witness ==
    /\ CopyDone(last) /\ last.pk = NoPk /\ PrecedingIn(budgets, last) = {}
    /\ last.existed /\ last.hadGroups
    /\ \A tb \in TargetIn(budgets, last) : GroupsOf(groups, tb) = {}

UniqueTriples(bs) ==
    \A a \in bs, b \in bs :
        (a.owner = b.owner /\ a.month = b.month /\ a.year = b.year) => a = b

C6_OneBudgetPerTriple ==
    [][/\ UniqueTriples(budgets')
       /\ (last'.op = "budget_create" /\ TargetIn(budgets, last') # {})
            => last'.status = "400" /\ budgets' = budgets
       /\ (last'.op \in {"category_create", "copy_budget"}
              /\ TargetIn(budgets, last') # {})
            => budgets' = budgets]_vars

C6_Witness ==
    /\ last.op = "budget_create" /\ last.status = "400"
    /\ Cardinality(budgets) = MaxBudgetId
    /\ \E b \in budgets : CatsIn(groups, cats, b) # {}

(* C8: a caller who is no administrator creates transactions and groups    *)
(* only under categories and budgets of their own, and an administrator's  *)
(* delete of any user's transaction succeeds.                              *)
C8_OwnerScoped ==
    [][/\ (last'.op = "transaction_create" /\ ~ is_staff(last'.user))
            => \A t \in txns' \ txns :
                 Row(budgets, Row(groups, Row(cats, t.budget_category).group).budget).owner
                   = last'.user
       /\ (last'.op = "group_create" /\ ~ is_staff(last'.user))
            => \A g \in groups' \ groups :
                 Row(budgets, g.budget).owner = last'.user
       /\ (last'.op = "transaction_destroy" /\ is_staff(last'.user)
              /\ ByPk(txns, last'.pk) # {})
            => last'.status = "204" /\ ByPk(txns', last'.pk) = {}]_vars

(* C9: no budget holds two categories of the same name. *)
C9_UniqueCategoryPerBudget ==
    \A b \in budgets :
        \A c \in CatsIn(groups, cats, b), d \in CatsIn(groups, cats, b) :
            c.category = d.category => c = d

(* C10: spent of every category is the sum, transaction by transaction,    *)
(* of the amounts booked on that category, and 0 when there is none.       *)
RECURSIVE TotalUpTo(_, _)
TotalUpTo(pk, n) ==
    IF n = 0 THEN 0
    ELSE TotalUpTo(pk, n - 1)
           + (IF \E t \in txns : t.id = n /\ t.budget_category = pk
              THEN Row(txns, n).amount ELSE 0)

C10_SpentIsSum ==
    \A c \in cats :
        /\ spent(txns, c.id) = TotalUpTo(c.id, nextId.txn - 1)
        /\ (\A t \in txns : t.budget_category # c.id) => spent(txns, c.id) = 0

C10_Witness ==
    \E c \in cats, d \in cats :
        /\ c # d
        /\ Cardinality({t \in txns : t.budget_category = c.id}) = 2
        /\ spent(txns, c.id) = 1550
        /\ spent(txns, d.id) = 0

(* C7: when two concurrent copy_budget calls of one user for one target   *)
(* have both returned, the store holds one target budget row, one group    *)
(* row per name in it and one category row per name in each of its groups. *)
C7_RaceLeavesOneRow ==
    (\A p \in Procs : pc[p] = "done")
      => LET tgt == {b \in budgets : /\ b.owner = RaceUser
                                     /\ b.month = RaceMonth
                                     /\ b.year = RaceYear}
         IN /\ Cardinality(tgt) = 1
            /\ \A tb \in tgt :
                 /\ \A g \in GroupsOf(groups, tb), h \in GroupsOf(groups, tb) :
                      g.name = h.name => g = h
                 /\ \A g \in GroupsOf(groups, tb) :
                      \A c \in CatsOf(cats, g), d \in CatsOf(cats, g) :
                        c.category = d.category => c = d

(* C11: for every budget b, of month index m in 0..11 and year y,          *)
(* b.previous is the budget of b's owner whose (month index, year) is      *)
(* (11, y-1) when m = 0 and (m-1, y) otherwise; it is None when that owner *)
(* has no such budget, and it is never a budget of another owner.          *)
C11_PreviousIsPrecedingMonth ==
    \A b \in budgets :
        LET m == MONTH_LOOKUP(b.month)
            pm == IF m = 0 THEN 11 ELSE m - 1
            py == IF m = 0 THEN b.year - 1 ELSE b.year
            want == {x \in budgets : /\ x.owner = b.owner
                                     /\ MONTH_LOOKUP(x.month) = pm
                                     /\ x.year = py}
            got == previous(budgets, b)
        IN /\ m \in 0..11
           /\ want = {} => got = NoPk
           /\ want # {} => got \in {x.id : x \in want}
           /\ got # NoPk => Row(budgets, got).owner = b.owner

(* a January budget whose previous is the same owner's December budget of  *)
(* the year before, which itself has no previous                           *)
C11_Witness ==
    \E b \in budgets, d \in budgets :
        /\ b.month = "JAN" /\ d.month = "DEC" /\ d.year = b.year - 1
        /\ d.owner = b.owner
        /\ previous(budgets, b) = d.id
        /\ previous(budgets, d) = NoPk

(* C12: a request that is not answered with success leaves every table as *)
(* it was before the request: a failed category create or update leaves no *)
(* budget or group behind, a failed copy_budget leaves no new target       *)
(* budget and no partly copied groups or categories.                       *)
C12_AllOrNothing ==
    [][last'.status \in {"400", "403", "404", "500"}
         => /\ budgets' = budgets /\ groups' = groups /\ cats' = cats
            /\ txns' = txns /\ payees' = payees]_vars

(* C13: after a successful update of a transaction the row holds the       *)
(* submitted amount, category and payee, and spent of every category is    *)
(* the sum of the other transactions' amounts on it plus, on the submitted *)
(* category, the submitted amount.                                         *)
C13_UpdateStoresValues ==
    [][(last'.op = "transaction_update" /\ last'.status = "200")
         => /\ \E t \in txns' :
                  /\ t.id = last'.pk
                  /\ t.amount = last'.amount
                  /\ t.budget_category = last'.budget_category
                  /\ \E p \in payees' : p.id = t.payee /\ p.name = last'.payee
            /\ \A c \in cats' :
                  spent(txns', c.id)
                    = SumAmount({t \in txns : /\ t.id # last'.pk
                                              /\ t.budget_category = c.id})
                        + (IF c.id = last'.budget_category
                           THEN last'.amount ELSE 0)]_vars

====
